---- MODULE Spec2Model ----
(***************************************************************************)
(* Model of cyclic_correlation.py: ZC_sequence, check_inputs_define_limits *)
(* and cyclic_corr.                                                        *)
(*                                                                         *)
(* Representation                                                          *)
(*  - a complex number is a pair <<re, im>> of integers (exact arithmetic) *)
(*  - a Python string is the sequence of its character codes               *)
(*  - a Python object is a record [type, ...]; a list / ndarray carries    *)
(*    ndim (for a list: the nesting depth numpy infers), dtype and data    *)
(*  - a correlation sequence is [num, den]: entry t is num[t] / den        *)
(*  - a magnitude |z| is carried as its square (numerator over den^2);     *)
(*    order and equality of non-negative reals coincide with those of      *)
(*    their squares                                                        *)
(*  - a unit-modulus exponential exp(-1j*pi*p/N) is carried as its phase   *)
(*    numerator p reduced modulo 2N                                        *)
(***************************************************************************)
EXTENDS Integers, Sequences, FiniteSets, TLC

VARIABLES pc, call, ret, warnings

vars == <<pc, call, ret, warnings>>

(* ---------------------------- bounds ----------------------------------- *)
MaxLen == 3
MaxN == 4

(* ------------------------- complex numbers ----------------------------- *)
CZero == <<0, 0>>
CAdd(a, b) == <<a[1] + b[1], a[2] + b[2]>>
CMul(a, b) == <<a[1] * b[1] - a[2] * b[2], a[1] * b[2] + a[2] * b[1]>>
\* fault variant: the conjugate dropped
ConjBad(a) == a
Conj(a) == <<a[1], -a[2]>>
AbsSq(a) == a[1] * a[1] + a[2] * a[2]

(* ----------------------------- strings --------------------------------- *)
\* str.lower on one character code: 'A'..'Z' -> 'a'..'z'
LowerChar(c) == IF c >= 65 /\ c <= 90 THEN c + 32 ELSE c
Lower(s) == [i \in 1..Len(s) |-> LowerChar(s[i])]

S_fft == <<102, 102, 116>>
S_analytic == <<97, 110, 97, 108, 121, 116, 105, 99>>
S_short == <<115, 104, 111, 114, 116>>
S_long == <<108, 111, 110, 103>>
\* "Analytic", "ANALYTIC", "LONG"
S_Analytic == <<65, 110, 97, 108, 121, 116, 105, 99>>
S_ANALYTIC == <<65, 78, 65, 76, 89, 84, 73, 67>>
S_LONG == <<76, 79, 78, 71>>

Str(s) == [type |-> "str", val |-> s]
PyNone == [type |-> "NoneType"]
PyInt(v) == [type |-> "int", val |-> v]
PyFloat(v) == [type |-> "float", val |-> v]

(* ------------------------- ZC_sequence --------------------------------- *)
ExcValue(site) == [exc |-> "ValueError", site |-> site]

ZCPhase(r, q, N, k) == (r * ((k % N) + (N % 2) + 2 * (q % N)) * (k % N)) % (2 * N)

\* fault variant: np.arange(1, N)
ZCArangeBad(N) == 1..(N - 1)
ZCArange(N) == 1..N

ZC_sequence(r, q, N) ==
    IF ~(r.type = "int" /\ q.type = "int" /\ N.type = "int")
    THEN ExcValue("integers")
    ELSE IF N.val < 1 THEN ExcValue("N")
    ELSE IF ~(1 <= r.val /\ r.val <= N.val) THEN ExcValue("r")
    ELSE IF q.val < 0 THEN ExcValue("q")
    ELSE [exc |-> "none",
          ZC |-> [j \in ZCArange(N.val) |-> ZCPhase(r.val, q.val, N.val, j - 1)]]

(* -------------------- check_inputs_define_limits ----------------------- *)
IsListOrArray(x) == x.type \in {"list", "ndarray"}

\* np.array(x) if x is not already an ndarray, else x itself
AsArray(x) ==
    IF x.type = "ndarray" THEN x
    ELSE [type |-> "ndarray", ndim |-> x.ndim, dtype |-> x.dtype, data |-> x.data]

Shape0(a) == Len(a.data)

Zeros(d) == [i \in 1..d |-> CZero]

\* np.pad(a, (0, d), mode='constant'): d zeros appended on the right
\* fault variant: the zeros placed on the left
PadBad(a, d) == [a EXCEPT !.data = Zeros(d) \o a.data]
Pad(a, d) == [a EXCEPT !.data = a.data \o Zeros(d)]

\* a[:m]
Truncate(a, m) == [a EXCEPT !.data = SubSeq(a.data, 1, m)]

RECURSIVE Repeat(_, _)
Repeat(d, times) == IF times = 0 THEN <<>> ELSE d \o Repeat(d, times - 1)

\* -(-L // size): the number of copies np.resize concatenates
CeilDiv(L, size) == (L + size - 1) \div size

\* np.resize(a, L): zero fill for an empty a, else copies of a concatenated
\* and cut at L
\* fault variant: ndarray.resize semantics (zero fill instead of repetition)
ResizeBad(a, L) ==
    IF Shape0(a) >= L THEN [a EXCEPT !.data = SubSeq(a.data, 1, L)]
    ELSE [a EXCEPT !.data = a.data \o Zeros(L - Shape0(a))]
Resize(a, L) ==
    IF Shape0(a) = 0 \/ L = 0 THEN [a EXCEPT !.data = Zeros(L)]
    ELSE [a EXCEPT !.data = SubSeq(Repeat(a.data, CeilDiv(L, Shape0(a))), 1, L)]

Min(a, b) == IF a <= b THEN a ELSE b
Max(a, b) == IF a >= b THEN a ELSE b

W_pad_s2 == "s2 is padded to s1 length"
W_pad_s1 == "s1 is padded to s2 length"
W_trunc == "Signals are truncated to the length of the shorter one"
W_resize == "Signals are resized to the length of the longer one"

Reconciled(a1, a2, w) == [exc |-> "none", s1 |-> a1, s2 |-> a2, warnings |-> w]

\* lines 126-151, on the converted arrays and the lower-cased wrt
HandleMismatch(a1, a2, wrt, padded) ==
    IF Shape0(a1) # Shape0(a2)
    THEN IF padded
         THEN IF Shape0(a1) > Shape0(a2)
              THEN Reconciled(a1, Pad(a2, Shape0(a1) - Shape0(a2)), <<W_pad_s2>>)
              ELSE Reconciled(Pad(a1, Shape0(a2) - Shape0(a1)), a2, <<W_pad_s1>>)
         ELSE IF wrt = S_short
              THEN LET min_len == Min(Shape0(a1), Shape0(a2))
                   IN Reconciled(Truncate(a1, min_len), Truncate(a2, min_len), <<W_trunc>>)
              ELSE LET max_len == Max(Shape0(a1), Shape0(a2))
                   IN Reconciled(Resize(a1, max_len), Resize(a2, max_len), <<W_resize>>)
    ELSE Reconciled(a1, a2, <<>>)

ValidMethod(method) == method.type = "str" /\ Lower(method.val) \in {S_fft, S_analytic}

ValidWrt(wrt) == wrt.type = "str" /\ Lower(wrt.val) \in {S_short, S_long}

check_inputs_define_limits(s1, s2, method, wrt, padded) ==
    IF s1.type = "NoneType" \/ s2.type = "NoneType" THEN ExcValue("None")
    ELSE IF ~(IsListOrArray(s1) /\ IsListOrArray(s2)) THEN ExcValue("array-like")
    ELSE IF AsArray(s1).ndim # 1 \/ AsArray(s2).ndim # 1 THEN ExcValue("1D")
    ELSE IF method.type # "str" THEN ExcValue("method type")
    ELSE IF ~ValidMethod(method) THEN ExcValue("method")
    ELSE IF wrt.type # "str" THEN ExcValue("wrt type")
    ELSE IF ~ValidWrt(wrt) THEN ExcValue("wrt")
    ELSE HandleMismatch(AsArray(s1), AsArray(s2), Lower(wrt.val), padded)

(* ----------------------------- cyclic_corr ----------------------------- *)
\* the inner loops of the analytic branch, with 0-based k and l as in the code
RECURSIVE SumZk(_, _, _, _, _)
SumZk(s1, s2, t, n, k) ==
    IF k >= n THEN CZero
    ELSE CAdd(CMul(s1[k + 1], Conj(s2[((k + t) % n) + 1])), SumZk(s1, s2, t, n, k + 1))

RECURSIVE SumZl(_, _, _, _, _)
SumZl(s1, s2, t, n, l) ==
    IF l >= n THEN CZero
    ELSE CAdd(CMul(Conj(s1[l + 1]), s2[((l + t) % n) + 1]), SumZl(s1, s2, t, n, l + 1))

AnalyticZ(s1, s2, n) ==
    [j \in 1..n |-> CMul(SumZk(s1, s2, j - 1, n, 0), SumZl(s1, s2, j - 1, n, 0))]

\* np.fft.ifft(np.fft.fft(s1) * np.conj(np.fft.fft(s2))) in exact arithmetic:
\* by the convolution theorem entry u is sum_k s1[(k+u) mod m] * conj(s2[k]),
\* m the transform length
RECURSIVE SumFft(_, _, _, _, _)
SumFft(s1, s2, u, m, k) ==
    IF k >= m THEN CZero
    ELSE CAdd(CMul(s1[((k + u) % m) + 1], Conj(s2[k + 1])), SumFft(s1, s2, u, m, k + 1))

FftZ(s1, s2) ==
    [j \in 1..Len(s1) |-> SumFft(s1, s2, j - 1, Len(s1), 0)]

\* np.abs, elementwise (squared, see the header)
AbsZ(num) == [j \in 1..Len(num) |-> AbsSq(num[j])]

\* np.max / np.min: a reduction over a non-empty array
RECURSIVE NpMax(_, _)
NpMax(a, i) == IF i = Len(a) THEN a[i] ELSE Max(a[i], NpMax(a, i + 1))

RECURSIVE NpMin(_, _)
NpMin(a, i) == IF i = Len(a) THEN a[i] ELSE Min(a[i], NpMin(a, i + 1))

\* np.argmax: a left-to-right scan that replaces the best index only on a
\* strictly larger value; returned 0-based
\* fault variant: the last index of the maximum
RECURSIVE ArgMaxScanBad(_, _, _)
ArgMaxScanBad(a, i, best) ==
    IF i > Len(a) THEN best - 1
    ELSE ArgMaxScanBad(a, i + 1, IF a[i] >= a[best] THEN i ELSE best)
RECURSIVE ArgMaxScan(_, _, _)
ArgMaxScan(a, i, best) ==
    IF i > Len(a) THEN best - 1
    ELSE ArgMaxScan(a, i + 1, IF a[i] > a[best] THEN i ELSE best)

Raised(exc, site, branch) == [exc |-> exc, site |-> site, branch |-> branch]

\* lines 224-229
Statistics(num, den, branch, w) ==
    LET abs_Z == AbsZ(num)
    IN IF Len(abs_Z) = 0 THEN Raised("ValueError", "np.max", branch)
       ELSE [exc |-> "none", Z |-> [num |-> num, den |-> den],
             max_val |-> NpMax(abs_Z, 1), t_max |-> ArgMaxScan(abs_Z, 1, 1),
             min_val |-> NpMin(abs_Z, 1), branch |-> branch, warnings |-> w]

\* lines 197-199: n is bound only when normalized
DefineN(a1, a2, normalized) ==
    IF normalized THEN [bound |-> TRUE, val |-> Min(Shape0(a1), Shape0(a2))]
    ELSE [bound |-> FALSE, val |-> 0]

\* line 202: the raw argument, not the lower-cased local of the checker
\* fault variant: the branch taken on the lower-cased value
IsAnalyticBad(method) == Lower(method.val) = S_analytic
IsAnalytic(method) == method.val = S_analytic

\* lines 203-215
AnalyticBranch(a1, a2, n, normalized, w) ==
    IF ~n.bound THEN Raised("UnboundLocalError", "n", "analytic")
    ELSE Statistics(AnalyticZ(a1.data, a2.data, n.val),
                    IF normalized THEN n.val * n.val ELSE 1, "analytic", w)

\* lines 217-222
FftBranch(a1, a2, n, normalized, w) ==
    IF Shape0(a1) < 1 THEN Raised("ValueError", "np.fft.fft", "fft")
    ELSE Statistics(FftZ(a1.data, a2.data), IF normalized THEN n.val ELSE 1, "fft", w)

cyclic_corr(s1, s2, method, padded, wrt, normalized) ==
    IF ~(IsListOrArray(s1) /\ IsListOrArray(s2))
    THEN Raised("ValueError", "array-like", "none")
    ELSE LET r == check_inputs_define_limits(s1, s2, method, wrt, padded)
         IN IF r.exc # "none" THEN Raised(r.exc, r.site, "none")
            ELSE LET n == DefineN(r.s1, r.s2, normalized)
                 IN IF IsAnalytic(method)
                    THEN AnalyticBranch(r.s1, r.s2, n, normalized, r.warnings)
                    ELSE FftBranch(r.s1, r.s2, n, normalized, r.warnings)

(* ------------------------------ inputs --------------------------------- *)
Values == {<<1, 1>>, <<0, -2>>}

NumSeqs == UNION {[1..l -> Values] : l \in 0..MaxLen}

List(d) == [type |-> "list", ndim |-> 1, dtype |-> "complex", data |-> d]

\* a list of strings, a nested list, a 0-d array, a ready 1-d array, a tuple
StrList == [type |-> "list", ndim |-> 1, dtype |-> "str", data |-> <<"a", "b">>]
NestedList == [type |-> "list", ndim |-> 2, dtype |-> "complex", data |-> <<>>]
Array0d == [type |-> "ndarray", ndim |-> 0, dtype |-> "complex", data |-> <<>>]
Array1d == [type |-> "ndarray", ndim |-> 1, dtype |-> "complex", data |-> <<<<0, -2>>, <<1, 1>>>>]
Tuple == [type |-> "tuple", ndim |-> 1, dtype |-> "complex", data |-> <<<<1, 1>>>>]

Signals == {List(d) : d \in NumSeqs} \cup {PyNone, StrList, NestedList, Array0d, Array1d, Tuple}

\* numpy's handling of a non-numeric array in pad/resize is not modelled:
\* such an array is only drawn against a partner of its own length
Drawable(s1, s2) ==
    (IsListOrArray(s1) /\ IsListOrArray(s2) /\ "str" \in {s1.dtype, s2.dtype}
        /\ s1.ndim = 1 /\ s2.ndim = 1)
    => Len(s1.data) = Len(s2.data)

\* nor is the arithmetic of the engine on a non-numeric array: cyclic_corr is
\* drawn on numeric data only
CorrDrawable(s1, s2) == StrList \notin {s1, s2}

\* "fft", "analytic", "Analytic", "ANALYTIC", "dft", None
Methods == {Str(S_fft), Str(S_analytic), Str(S_Analytic), Str(S_ANALYTIC),
            Str(<<100, 102, 116>>), PyNone}

\* "short", "long", "LONG", "mid", 5
Wrts == {Str(S_short), Str(S_long), Str(S_LONG),
         Str(<<109, 105, 100>>), PyInt(5)}

Params == {PyInt(v) : v \in -1..(MaxN + 1)} \cup {PyFloat(2), PyNone}

(* --------------------------- state machine ----------------------------- *)
NoCall == [op |-> "none"]

Init ==
    /\ pc = "idle"
    /\ call = NoCall
    /\ ret = [exc |-> "none"]
    /\ warnings = <<>>

CallZC ==
    /\ pc = "idle"
    /\ \E r \in Params, q \in Params, N \in Params :
        /\ call' = [op |-> "ZC_sequence", r |-> r, q |-> q, N |-> N]
        /\ ret' = ZC_sequence(r, q, N)
    /\ warnings' = <<>>
    /\ pc' = "done"

CallCheck ==
    /\ pc = "idle"
    /\ \E s1 \in Signals, s2 \in Signals, method \in Methods, wrt \in Wrts,
          padded \in BOOLEAN :
        /\ Drawable(s1, s2)
        /\ call' = [op |-> "check_inputs_define_limits", s1 |-> s1, s2 |-> s2,
                    method |-> method, wrt |-> wrt, padded |-> padded]
        /\ LET r == check_inputs_define_limits(s1, s2, method, wrt, padded)
           IN /\ ret' = r
              /\ warnings' = IF r.exc = "none" THEN r.warnings ELSE <<>>
    /\ pc' = "done"

CallCorr ==
    /\ pc = "idle"
    /\ \E s1 \in Signals, s2 \in Signals, method \in Methods, wrt \in Wrts,
          padded \in BOOLEAN, normalized \in BOOLEAN :
        /\ CorrDrawable(s1, s2)
        /\ call' = [op |-> "cyclic_corr", s1 |-> s1, s2 |-> s2, method |-> method,
                    wrt |-> wrt, padded |-> padded, normalized |-> normalized]
        /\ LET r == cyclic_corr(s1, s2, method, padded, wrt, normalized)
           IN /\ ret' = r
              /\ warnings' = IF r.exc = "none" THEN r.warnings ELSE <<>>
    /\ pc' = "done"

\* the call returns (or its exception propagates) to the caller
Return ==
    /\ pc = "done"
    /\ pc' = "idle"
    /\ call' = NoCall
    /\ ret' = [exc |-> "none"]
    /\ warnings' = <<>>

Next == CallZC \/ CallCheck \/ CallCorr \/ Return

Spec == Init /\ [][Next]_vars

(* ----------------- the transform pipeline, where exact ------------------ *)
\* For transform lengths 1, 2 and 4 the roots of unity exp(-2j*pi/m) are the
\* Gaussian integers 1, -1 and -1j, so lines 218-220 can be evaluated
\* literally and compared with the closed form FftZ.
ExactLengths == {1, 2, 4}

Omega(m) == IF m = 1 THEN <<1, 0>> ELSE IF m = 2 THEN <<-1, 0>> ELSE <<0, -1>>

RECURSIVE CPow(_, _)
CPow(w, e) == IF e = 0 THEN <<1, 0>> ELSE CMul(w, CPow(w, e - 1))

RECURSIVE DftSum(_, _, _, _)
DftSum(x, w, f, a) ==
    IF a >= Len(x) THEN CZero
    ELSE CAdd(CMul(x[a + 1], CPow(w, (f * a) % Len(x))), DftSum(x, w, f, a + 1))

\* np.fft.fft
Dft(x) == [j \in 1..Len(x) |-> DftSum(x, Omega(Len(x)), j - 1, 0)]

\* np.fft.ifft, before its division by the length
IdftTimesLen(x) == [j \in 1..Len(x) |-> DftSum(x, Conj(Omega(Len(x))), j - 1, 0)]

PipelineTimesLen(s1, s2) ==
    LET X == Dft(s1)
        Y == Dft(s2)
    IN IdftTimesLen([j \in 1..Len(s1) |-> CMul(X[j], Conj(Y[j]))])

\* on every successful FFT-branch call of an exact length, the returned
\* numerators are the literal pipeline's
FftAgreesWithExactDft ==
    (/\ pc = "done" /\ call.op = "cyclic_corr"
     /\ ret.exc = "none" /\ ret.branch = "fft"
     /\ Len(ret.Z.num) \in ExactLengths)
    => LET r == check_inputs_define_limits(call.s1, call.s2, call.method, call.wrt, call.padded)
           m == Len(ret.Z.num)
       IN PipelineTimesLen(r.s1.data, r.s2.data)
            = [j \in 1..m |-> <<m * ret.Z.num[j][1], m * ret.Z.num[j][2]>>]

(* ------------------------- properties: helpers ------------------------- *)
Done(op) == pc = "done" /\ call.op = op

\* a one-dimensional numeric list or array
ValidSignal(s) == IsListOrArray(s) /\ s.ndim = 1 /\ s.dtype = "complex"

\* a one-dimensional ordered numeric sequence of any container type
NumericSeq1D(s) ==
    s.type \in {"list", "ndarray", "tuple"} /\ s.ndim = 1 /\ s.dtype = "complex"

AcceptedMethod(m) ==
    m \in {Str(S_fft), Str(S_analytic), Str(S_Analytic), Str(S_ANALYTIC)}

AcceptedWrt(w) == w \in {Str(S_short), Str(S_long), Str(S_LONG)}

\* the sites at which check_inputs_define_limits (or the type guard that
\* precedes it in cyclic_corr) raises
ValidationSites == {"None", "array-like", "1D", "method type", "method", "wrt type", "wrt"}

InvalidInput(r) == r.exc = "ValueError" /\ r.site \in ValidationSites

\* what the preprocessor hands to the engine for the current cyclic_corr call
ReconciledOfCall ==
    check_inputs_define_limits(call.s1, call.s2, call.method, call.wrt, call.padded)

(* ------------------------------- C1 ------------------------------------ *)
\* C1: for valid signals of length >= 1, any padded and any accepted window,
\* cyclic_corr with method "analytic" and normalized = FALSE completes and
\* returns (Z, max_val, t_max, min_val).
C1_AnalyticUnnormalizedCompletes ==
    (/\ Done("cyclic_corr")
     /\ ValidSignal(call.s1) /\ Len(call.s1.data) >= 1
     /\ ValidSignal(call.s2) /\ Len(call.s2.data) >= 1
     /\ AcceptedWrt(call.wrt)
     /\ call.method = Str(S_analytic)
     /\ ~call.normalized)
    => ret.exc = "none"

(* ------------------------------- C2 ------------------------------------ *)
\* C2: a method string equal to "analytic" only case-insensitively passes
\* validation (no InvalidInput) and the result is computed by the FFT branch.
C2_MixedCaseRunsFft ==
    (/\ Done("cyclic_corr")
     /\ call.method \in {Str(S_Analytic), Str(S_ANALYTIC)}
     /\ IsListOrArray(call.s1) /\ call.s1.ndim = 1
     /\ IsListOrArray(call.s2) /\ call.s2.ndim = 1
     /\ AcceptedWrt(call.wrt))
    => /\ ~InvalidInput(ret)
       /\ ret.branch = "fft"
       /\ (ValidSignal(call.s1) /\ ValidSignal(call.s2) /\ Len(ReconciledOfCall.s1.data) >= 1)
          => /\ ret.exc = "none"
             /\ ret.Z.num = FftZ(ReconciledOfCall.s1.data, ReconciledOfCall.s2.data)

C2_Witness ==
    /\ Done("cyclic_corr")
    /\ call.method = Str(S_Analytic)
    /\ ret.exc = "none"
    /\ ret.branch = "fft"
    /\ Len(ret.Z.num) = 3

\* only the exact literal selects the analytic branch
C2_LiteralRunsAnalytic ==
    (Done("cyclic_corr") /\ ret.branch = "analytic") => call.method = Str(S_analytic)

(* ------------------------------- C3 ------------------------------------ *)
\* C3: with padded = TRUE and different lengths the longer signal is returned
\* unchanged and the shorter one keeps every element at its index and is
\* extended on the right with zeros to the longer length; one padding
\* diagnostic is emitted.
PaddedRight(out, orig, L) ==
    /\ Len(out) = L
    /\ \A i \in 1..Len(orig) : out[i] = orig[i]
    /\ \A i \in (Len(orig) + 1)..L : out[i] = CZero

C3_PadShorterRight ==
    (/\ Done("check_inputs_define_limits")
     /\ ret.exc = "none"
     /\ call.padded
     /\ Len(call.s1.data) # Len(call.s2.data))
    => LET L == Max(Len(call.s1.data), Len(call.s2.data))
       IN /\ PaddedRight(ret.s1.data, call.s1.data, L)
          /\ PaddedRight(ret.s2.data, call.s2.data, L)
          /\ warnings \in {<<W_pad_s1>>, <<W_pad_s2>>}
          /\ (warnings = <<W_pad_s1>>) <=> (Len(call.s1.data) < Len(call.s2.data))

C3_Witness ==
    /\ Done("check_inputs_define_limits")
    /\ ret.exc = "none"
    /\ call.padded
    /\ Len(call.s1.data) = 1
    /\ Len(call.s2.data) = 3
    /\ call.wrt = Str(S_long)
    /\ warnings = <<W_pad_s1>>

(* ------------------------------- C4 ------------------------------------ *)
\* C4: with padded = FALSE, window "long" and different lengths >= 1, both
\* outputs have the longer length L and out[i] = original[i mod len(original)]
\* for every i in [0, L).
Tiled(out, orig, L) ==
    /\ Len(out) = L
    /\ \A i \in 0..(L - 1) : out[i + 1] = orig[(i % Len(orig)) + 1]

C5_InvalidInputRejected ==
    (/\ Done("check_inputs_define_limits")
     /\ \/ call.s1.type = "NoneType" \/ call.s2.type = "NoneType"
        \/ ~NumericSeq1D(call.s1) \/ ~NumericSeq1D(call.s2)
        \/ ~AcceptedMethod(call.method)
        \/ ~AcceptedWrt(call.wrt))
    => InvalidInput(ret) /\ warnings = <<>>

\* the part of C5 the code does implement: everything but the element type
C5_RejectedExceptElementType ==
    (/\ Done("check_inputs_define_limits")
     /\ \/ call.s1.type = "NoneType" \/ call.s2.type = "NoneType"
        \/ ~(IsListOrArray(call.s1) /\ call.s1.ndim = 1)
        \/ ~(IsListOrArray(call.s2) /\ call.s2.ndim = 1)
        \/ ~AcceptedMethod(call.method)
        \/ ~AcceptedWrt(call.wrt))
    => InvalidInput(ret) /\ warnings = <<>>

(* ------------------------------- C6 ------------------------------------ *)
\* C6: on success Z has n entries (n the reconciled common length), max_val
\* is the largest and min_val the smallest |Z[t]|, and t_max is the smallest
\* index whose magnitude is max_val.
C6_Statistics ==
    (Done("cyclic_corr") /\ ret.exc = "none")
    => LET n == Len(ReconciledOfCall.s1.data)
           mag(t) == AbsSq(ret.Z.num[t + 1])
       IN /\ n = Len(ReconciledOfCall.s2.data)
          /\ Len(ret.Z.num) = n
          /\ \A t \in 0..(n - 1) : mag(t) <= ret.max_val /\ mag(t) >= ret.min_val
          /\ \E t \in 0..(n - 1) : mag(t) = ret.min_val
          /\ ret.t_max \in 0..(n - 1)
          /\ mag(ret.t_max) = ret.max_val
          /\ \A t \in 0..(ret.t_max - 1) : mag(t) # ret.max_val

\* a tie for the maximum that is not at index 0
C6_Witness ==
    /\ Done("cyclic_corr")
    /\ ret.exc = "none"
    /\ ret.t_max = 1
    /\ Len(ret.Z.num) = 3
    /\ AbsSq(ret.Z.num[3]) = ret.max_val
    /\ ret.min_val < ret.max_val

(* ------------------------------- C7 ------------------------------------ *)
\* C7: the self-correlation of a signal of length >= 1 with method "fft" and
\* normalized = TRUE has t_max = 0 and max_val >= |Z[t]| for every shift t.
C7_SelfCorrelationPeaksAtZero ==
    (/\ Done("cyclic_corr")
     /\ ValidSignal(call.s1) /\ Len(call.s1.data) >= 1
     /\ call.s2 = call.s1
     /\ call.method = Str(S_fft)
     /\ AcceptedWrt(call.wrt)
     /\ call.normalized)
    => /\ ret.exc = "none"
       /\ ret.t_max = 0
       /\ \A t \in 1..Len(ret.Z.num) : ret.max_val >= AbsSq(ret.Z.num[t])

C7_Witness ==
    /\ Done("cyclic_corr")
    /\ ValidSignal(call.s1)
    /\ call.s1.data = <<<<1, 1>>, <<0, -2>>, <<0, -2>>>>
    /\ call.s2 = call.s1
    /\ call.method = Str(S_fft)
    /\ call.normalized
    /\ ret.exc = "none"
    /\ ret.t_max = 0
    /\ ret.min_val < ret.max_val

(* ------------------------------- C8 ------------------------------------ *)
\* C8: every pair of signals the preprocessor returns has one common length n
\* and n >= 1.
C8_ReconciledLengthAtLeastOne ==
    (Done("check_inputs_define_limits") /\ ret.exc = "none")
    => /\ Len(ret.s1.data) = Len(ret.s2.data)
       /\ Len(ret.s1.data) >= 1

\* the part of C8 that holds: the two returned signals have one length
C8_CommonLength ==
    (Done("check_inputs_define_limits") /\ ret.exc = "none")
    => Len(ret.s1.data) = Len(ret.s2.data)

(* ------------------------------- C9 ------------------------------------ *)
\* C9: ZC_sequence(r, q, N) fails whenever one of r, q, N is not an integer,
\* N < 1, r < 1, r > N or q < 0, and otherwise returns exactly N elements.
C9_ZCValidation ==
    Done("ZC_sequence")
    => LET ints == call.r.type = "int" /\ call.q.type = "int" /\ call.N.type = "int"
       IN IF ints /\ call.N.val >= 1 /\ 1 <= call.r.val /\ call.r.val <= call.N.val
                /\ call.q.val >= 0
          THEN ret.exc = "none" /\ Len(ret.ZC) = call.N.val
          ELSE ret.exc = "ValueError"

C9_Witness ==
    /\ Done("ZC_sequence")
    /\ call.r = PyInt(3) /\ call.q = PyInt(2) /\ call.N = PyInt(4)
    /\ ret.exc = "none"
    /\ Len(ret.ZC) = 4

C9_WitnessRootZero ==
    /\ Done("ZC_sequence")
    /\ call.r = PyInt(0) /\ call.q = PyInt(0) /\ call.N = PyInt(MaxN)
    /\ ret.exc = "ValueError"

(* ------------------------------- C10 ----------------------------------- *)
\* Z_analytic[t] = |Z_fft[(n - t) mod n]|^2 with both sequences given as
\* numerators over a common denominator: cross-multiplied
MirrorSquare(za, zf, n) ==
    \A t \in 0..(n - 1) :
        /\ za.num[t + 1][2] = 0
        /\ za.num[t + 1][1] >= 0
        /\ za.num[t + 1][1] * zf.den * zf.den = AbsSq(zf.num[((n - t) % n) + 1]) * za.den

\* C10: for equal-length signals of length n >= 1 the analytic result is,
\* normalized or not, the squared magnitude of the FFT result at the mirrored
\* lag, Z_fft being sum_k s1[(k+u) mod n] * conj(s2[k]) over the FFT divisor.
C10_AnalyticIsMirroredSquare ==
    (/\ Done("cyclic_corr")
     /\ ValidSignal(call.s1) /\ ValidSignal(call.s2)
     /\ Len(call.s1.data) = Len(call.s2.data) /\ Len(call.s1.data) >= 1
     /\ call.method = Str(S_analytic)
     /\ AcceptedWrt(call.wrt))
    => /\ ret.exc = "none"
       /\ LET n == Len(call.s1.data)
              zf == [num |-> FftZ(call.s1.data, call.s2.data),
                     den |-> IF call.normalized THEN n ELSE 1]
          IN MirrorSquare(ret.Z, zf, n)

\* the half of C10 the code reaches: the normalized one
C10_NormalizedMirroredSquare ==
    (/\ Done("cyclic_corr")
     /\ ValidSignal(call.s1) /\ ValidSignal(call.s2)
     /\ Len(call.s1.data) = Len(call.s2.data) /\ Len(call.s1.data) >= 1
     /\ call.method = Str(S_analytic)
     /\ AcceptedWrt(call.wrt)
     /\ call.normalized)
    => /\ ret.exc = "none"
       /\ LET n == Len(call.s1.data)
          IN MirrorSquare(ret.Z, [num |-> FftZ(call.s1.data, call.s2.data), den |-> n], n)

====
